---- MODULE Spec2Model ----
(***************************************************************************)
(* Event-source plugin and trigger matching of zenml:                      *)
(*   src/src/zenml/event_sources/base_event_source_plugin.py               *)
(*                                                                         *)
(* BaseEventSourcePlugin.create_event_source and process_event are run by  *)
(* several concurrent calls against one store.  A call is split where the  *)
(* code crosses into a collaborator (the abstract extension points), which *)
(* is where calls can interleave.  BaseEventSourcePluginFlavor's schema    *)
(* getters and response model are pure and are applied by one action.      *)
(***************************************************************************)
EXTENDS Naturals, Sequences, FiniteSets

\* ---------------------------------------------------------------- bounds
MaxCalls == 2       \* concurrent calls of the plugin's public operations
MaxTriggers == 2    \* triggers held by the store

Calls == 1..MaxCalls
TriggerIDs == 1..MaxTriggers

\* ---------------------------------------------------------------- values
\* A raw value of a payload carries its Python type and its text.
Str(s) == [type |-> "str", repr |-> s]
Int(s) == [type |-> "int", repr |-> s]
Field(n, v) == [name |-> n, type |-> v.type, repr |-> v.repr]

RepoA == "https://x/y"
RepoB == "https://x/z"
Origins == {RepoA, RepoB}

\* Raw configuration payloads of creation requests (Dict[str, Any]).
Payloads ==
    { {},
      {Field("repoUrl", Str(RepoB))},
      {Field("repoUrl", Int("123"))} }

\* Stored filter configurations of triggers; the last is corrupt (wrong type).
StoredFilters ==
    { {Field("branch", Str("main"))},
      {Field("branch", Str("dev"))},
      {Field("branch", Int("7"))} }

\* Inbound events of the webhook family.
Events ==
    { [repoUrl |-> RepoA, branch |-> "main"],
      [repoUrl |-> RepoA, branch |-> "dev"],
      [repoUrl |-> RepoB, branch |-> "main"] }

None == [none |-> TRUE]

\* ------------------------------------------------- configuration models
\* pydantic model construction cls(**payload): every declared field is
\* required, must be present with its declared type; fields that are not
\* declared are ignored or refused by the class's `extra` policy.
Validates(cls, payload) ==
    /\ \A f \in cls.fields :
          \E p \in payload : p.name = f.name /\ p.type = f.type
    /\ cls.extra = "forbid" =>
          \A p \in payload : \E f \in cls.fields : f.name = p.name

\* pydantic cls.schema_json(), read back by json.loads.
SchemaJson(cls) ==
    [ title |-> cls.name,
      properties |-> cls.fields,
      required |-> {f.name : f \in cls.fields},
      additionalProperties |-> (cls.extra # "forbid") ]

\* BasePluginConfig settles what happens to undeclared fields.
ExtraPolicies == {"ignore", "forbid"}

\* class EventSourceConfig(BasePluginConfig): declares no field.
EventSourceConfig(extra) ==
    [name |-> "EventSourceConfig", fields |-> {}, extra |-> extra]

\* The flavor of the running plugin: FLAVOR, EVENT_SOURCE_CONFIG_CLASS and
\* EVENT_FILTER_CONFIG_CLASS of a webhook flavor.
Webhook(extra) ==
    [ FLAVOR |-> "webhook",
      EVENT_SOURCE_CONFIG_CLASS |->
          [ name |-> "WebhookEventSourceConfig",
            fields |-> {[name |-> "repoUrl", type |-> "str"]},
            extra |-> extra ],
      EVENT_FILTER_CONFIG_CLASS |->
          [ name |-> "WebhookEventFilterConfig",
            fields |-> {[name |-> "branch", type |-> "str"]},
            extra |-> "ignore" ] ]

\* Field declarations the configuration classes of a flavor are built from.
SourceFieldDecls ==
    { [name |-> "repoUrl", type |-> "str"],
      [name |-> "token", type |-> "str"],
      [name |-> "port", type |-> "int"] }
FilterFieldDecls ==
    { [name |-> "branch", type |-> "str"],
      [name |-> "repoUrl", type |-> "str"],
      [name |-> "depth", type |-> "int"] }

\* Every flavor over these declarations.
Flavors(extra) ==
    { [ FLAVOR |-> "flavor",
        EVENT_SOURCE_CONFIG_CLASS |->
            [name |-> "SourceConfig", fields |-> sf, extra |-> extra],
        EVENT_FILTER_CONFIG_CLASS |->
            [name |-> "FilterConfig", fields |-> ff, extra |-> "ignore"] ] :
      sf \in SUBSET SourceFieldDecls, ff \in SUBSET FilterFieldDecls }

\* ---------------------------------------------------------------- state
VARIABLES
    extra,       \* BasePluginConfig's policy for undeclared fields
    flavor,      \* the flavor descriptor of the running plugin
    sources,     \* store: persisted event sources, identifier = index
    triggers,    \* store: TriggerID -> [event_sources, filter]
    calls,       \* call -> the call's frame (operation, locals, outcome)
    hub,         \* Event Hub: the dispatches it has received
    response     \* last result of get_plugin_flavor_response_model

vars == <<extra, flavor, sources, triggers, calls, hub, response>>

\* The frame of a call: its operation and argument, where it stands, its
\* local variables, how it ended, and the collaborator calls it has made.
IdleCall ==
    [ op |-> "idle", pc |-> "idle", arg |-> None,
      event_source_ids |-> {}, trigger_ids |-> <<>>,
      result |-> None, error |-> "none", trace |-> <<>>,
      observed |-> 0 ]

\* Python control flow: an exception nobody catches ends the call, a return
\* hands the value to the caller.
Raise(frame, err) == [frame EXCEPT !.pc = "raised", !.error = err]
Return(frame, value) == [frame EXCEPT !.pc = "returned", !.result = value]
\* What a collaborator call hands back: a value or a failure, and for the
\* trigger matching the triggers it evaluated and those that failed.
Failure(err) ==
    [ok |-> FALSE, value |-> None, error |-> err, evaluated |-> {}, failures |-> {}]
Success(value) ==
    [ok |-> TRUE, value |-> value, error |-> "none", evaluated |-> {}, failures |-> {}]

\* The frame after a collaborator call: the call, its argument and its
\* answer are on the frame's trace.
Called(frame, name, arg, answer) ==
    [frame EXCEPT !.trace = Append(@, [op |-> name, arg |-> arg, res |-> answer])]

\* ----------------------------------------------------------- the store
\* The origin an event source watches, read from its stored configuration.
OriginOf(configuration) ==
    IF \E p \in configuration : p.name = "repoUrl"
    THEN (CHOOSE p \in configuration : p.name = "repoUrl").repr
    ELSE "none"

StoredSource(configuration) == [configuration |-> configuration]

\* The sequence of the members of a set of identifiers, ascending.
RECURSIVE SortedSeq(_)
SortedSeq(S) ==
    IF S = {} THEN <<>>
    ELSE LET m == CHOOSE x \in S : \A y \in S : x <= y
         IN <<m>> \o SortedSeq(S \ {m})

\* ------------------------------------- extension points of the flavors
\* _create_event_source: persists the event source and answers with the
\* assigned identifier and the configuration, or fails at the store.
_create_event_source(srcs, event_source, ok) ==
    IF ok
    THEN [ sources |-> Append(srcs, StoredSource(event_source.configuration)),
           answer |-> Success([ id |-> Len(srcs) + 1,
                                configuration |-> event_source.configuration ]) ]
    ELSE [ sources |-> srcs, answer |-> Failure("StoreUnavailable") ]

\* _get_all_relevant_event_sources: the persisted event sources whose
\* origin is the event's, or a failure of the store.
_get_all_relevant_event_sources(srcs, event, ok) ==
    IF ok
    THEN Success({i \in 1..Len(srcs) :
                    OriginOf(srcs[i].configuration) = event.repoUrl})
    ELSE Failure("SourceResolutionFailed")

\* EventFilterConfig.event_matches_filter of the webhook family.
event_matches_filter(filter, event) ==
    \E p \in filter : p.name = "branch" /\ p.repr = event.branch

\* _get_matching_triggers: every trigger registered on one of the event
\* sources is evaluated; a stored filter that does not validate against
\* the flavor's filter type is a failure of that trigger alone, collected
\* and reported with the answer; the triggers whose filter matches are
\* answered once each, whatever the number of event sources they are on.
_get_matching_triggers(trgs, flv, event_source_ids, event, ok) ==
    IF ~ok THEN Failure("FilterEvaluationFailed")
    ELSE
      LET cand == {t \in DOMAIN trgs :
                      trgs[t].event_sources \cap event_source_ids # {}}
          bad == {t \in cand :
                      ~Validates(flv.EVENT_FILTER_CONFIG_CLASS, trgs[t].filter)}
          hit == {t \in cand \ bad : event_matches_filter(trgs[t].filter, event)}
      IN [ ok |-> TRUE, value |-> SortedSeq(hit), error |-> "none",
           evaluated |-> cand, failures |-> bad ]

\* ------------------------------------------------ BaseEventSourcePlugin
\* config_class: the class the plugin validates configurations against.
config_class(flv, policy) == EventSourceConfig(policy)

\* _fail_if_event_source_configuration_invalid: constructs config_class
\* from the request's configuration; a ValueError of the construction is
\* raised again as ValueError("Invalid Configuration.").
InvalidConfiguration == "ValueError: Invalid Configuration."

\* Faulty variant: the ValueError of the construction is swallowed.
fail_if_invalid_swallowed(frame, cls) ==
    [Called(frame, "config_class", frame.arg,
            IF Validates(cls, frame.arg.configuration)
            THEN Success(None) ELSE Failure("ValueError"))
       EXCEPT !.pc = "create"]

_fail_if_event_source_configuration_invalid(frame, cls) ==
    IF Validates(cls, frame.arg.configuration)
    THEN [Called(frame, "config_class", frame.arg, Success(None))
            EXCEPT !.pc = "create"]
    ELSE Raise(Called(frame, "config_class", frame.arg, Failure("ValueError")),
               InvalidConfiguration)

\* Calls are numbered in the order they arrive.
Arrives(c) ==
    /\ calls[c].op = "idle"
    /\ \A d \in Calls : d < c => calls[d].op # "idle"

\* create_event_source, up to its call of _create_event_source: validates.
create_event_source(c, event_source) ==
    /\ Arrives(c)
    /\ calls' = [calls EXCEPT ![c] =
          _fail_if_event_source_configuration_invalid(
              [IdleCall EXCEPT !.op = "create_event_source", !.arg = event_source],
              config_class(flavor, extra))]
    /\ UNCHANGED <<extra, flavor, sources, triggers, hub, response>>

\* Faulty variant: the fields of the constructed config_class are handed on in
\* place of the request's configuration.
create_event_source_request_parsed(frame) ==
    [frame.arg EXCEPT !.configuration = {}]

\* The request create_event_source hands to _create_event_source.
create_event_source_request(frame) == frame.arg

\* How create_event_source ends on the answer of _create_event_source: it
\* returns the response, and does not catch a failure.
create_event_source_end(frame, answer) ==
    IF answer.ok THEN Return(frame, answer.value) ELSE Raise(frame, answer.error)

\* create_event_source, from its call of _create_event_source to its end.
create_event_source_delegate(c) ==
    /\ calls[c].op = "create_event_source"
    /\ calls[c].pc = "create"
    /\ \E ok \in BOOLEAN :
          LET request == create_event_source_request(calls[c])
              done == _create_event_source(sources, request, ok)
          IN /\ sources' = done.sources
             /\ calls' = [calls EXCEPT ![c] =
                   create_event_source_end(
                       Called(@, "_create_event_source", request, done.answer),
                       done.answer)]
    /\ UNCHANGED <<extra, flavor, triggers, hub, response>>

\* Faulty variant: event_source_ids is kept on the plugin instance, which the calls
\* in flight share.
assign_event_source_ids_shared(c, frame, ids) ==
    [d \in Calls |->
        IF d = c THEN [frame EXCEPT !.event_source_ids = ids, !.pc = "match"]
        ELSE IF calls[d].pc = "match"
             THEN [calls[d] EXCEPT !.event_source_ids = ids]
             ELSE calls[d]]

\* process_event keeps event_source_ids in a local variable of the call.
assign_event_source_ids(c, frame, ids) ==
    [calls EXCEPT ![c] = [frame EXCEPT !.event_source_ids = ids, !.pc = "match"]]

\* Faulty variant: the matching is called whatever the list holds.
process_event_sources_unguarded(c, frame, answer) ==
    IF ~answer.ok THEN [calls EXCEPT ![c] = Raise(frame, answer.error)]
    ELSE assign_event_source_ids(c, frame, answer.value)

\* Faulty variant: a failure of the extension point is caught and dropped.
process_event_sources_swallow(c, frame, answer) ==
    IF ~answer.ok THEN [calls EXCEPT ![c] = Return(frame, None)]
    ELSE IF answer.value # {} THEN assign_event_source_ids(c, frame, answer.value)
    ELSE [calls EXCEPT ![c] = Return(frame, None)]

\* process_event after _get_all_relevant_event_sources has answered: a
\* failure is not caught; `if event_source_ids:` goes on to the matching
\* only with a non-empty list, and otherwise the call returns.
process_event_sources(c, frame, answer) ==
    IF ~answer.ok THEN [calls EXCEPT ![c] = Raise(frame, answer.error)]
    ELSE IF answer.value # {} THEN assign_event_source_ids(c, frame, answer.value)
    ELSE [calls EXCEPT ![c] = Return(frame, None)]

\* process_event, up to the answer of _get_all_relevant_event_sources.
process_event(c, event) ==
    /\ Arrives(c)
    /\ \E ok \in BOOLEAN :
          LET answer == _get_all_relevant_event_sources(sources, event, ok)
          IN calls' = process_event_sources(c,
                Called([IdleCall EXCEPT !.op = "process_event", !.arg = event,
                                        !.observed = Len(sources)],
                       "_get_all_relevant_event_sources", event, answer),
                answer)
    /\ UNCHANGED <<extra, flavor, sources, triggers, hub, response>>

\* Faulty variant: only the last event source identifier is handed on.
process_event_ids_last(frame) ==
    {i \in frame.event_source_ids : \A j \in frame.event_source_ids : j <= i}

\* The event source identifiers process_event hands to _get_matching_triggers.
process_event_ids(frame) == frame.event_source_ids

\* Faulty variant: a trigger whose evaluation failed ends the whole call.
process_event_triggers_abort(frame, answer) ==
    IF ~answer.ok THEN Raise(frame, answer.error)
    ELSE IF answer.failures # {} THEN Raise(frame, "FilterEvaluationFailed")
    ELSE Return(
           Called([frame EXCEPT !.trigger_ids = answer.value],
                  "logger.info", answer.value, Success(None)),
           None)

\* process_event after _get_matching_triggers has answered: a failure is
\* not caught; the trigger identifiers are logged and the call returns.
process_event_triggers(frame, answer) ==
    IF ~answer.ok THEN Raise(frame, answer.error)
    ELSE Return(
           Called([frame EXCEPT !.trigger_ids = answer.value],
                  "logger.info", answer.value, Success(None)),
           None)

\* What process_event hands to the Event Hub: the code stops at a TODO.
process_event_dispatch(frame, h) == h

\* process_event, from its call of _get_matching_triggers to its end.
process_event_match(c) ==
    /\ calls[c].op = "process_event"
    /\ calls[c].pc = "match"
    /\ \E ok \in BOOLEAN :
          LET ids == process_event_ids(calls[c])
              answer == _get_matching_triggers(triggers, flavor, ids, calls[c].arg, ok)
              frame == process_event_triggers(
                          Called(calls[c], "_get_matching_triggers",
                                 [event_source_ids |-> ids, event |-> calls[c].arg],
                                 answer),
                          answer)
          IN /\ calls' = [calls EXCEPT ![c] = frame]
             /\ hub' = process_event_dispatch(frame, hub)
    /\ UNCHANGED <<extra, flavor, sources, triggers, response>>

\* ------------------------------------------ BaseEventSourcePluginFlavor
get_event_filter_config_schema(cls) == SchemaJson(cls.EVENT_SOURCE_CONFIG_CLASS)

get_event_source_config_schema(cls) == SchemaJson(cls.EVENT_FILTER_CONFIG_CLASS)

\* TYPE: ClassVar[PluginType] = PluginType.EVENT_SOURCE
TYPE == "event_source"

get_plugin_flavor_response_model(cls) ==
    [ flavor_name |-> cls.FLAVOR,
      plugin_type |-> TYPE,
      source_config_schema |-> get_event_source_config_schema(cls),
      filter_config_schema |-> get_event_filter_config_schema(cls) ]

\* A caller asks the flavor for its response model.
flavor_response ==
    /\ response = None
    /\ response' = get_plugin_flavor_response_model(flavor)
    /\ UNCHANGED <<extra, flavor, sources, triggers, calls, hub>>

\* ------------------------------------------------------- specification
\* Triggers with an odd identifier listen on event source 1, the others on
\* event sources 1 and 2.
TriggerSources(t) == IF t % 2 = 1 THEN {1} ELSE {1, 2}

\* The event sources the store holds at the start.
InitialSources(o) ==
    << StoredSource({Field("repoUrl", Str(RepoA))}),
       StoredSource({Field("repoUrl", Str(o))}) >>

Init ==
    /\ extra \in ExtraPolicies
    /\ flavor = Webhook(extra)
    /\ \E o \in Origins : sources = InitialSources(o)
    /\ \E f \in [TriggerIDs -> StoredFilters] :
          triggers = [t \in TriggerIDs |->
                         [event_sources |-> TriggerSources(t), filter |-> f[t]]]
    /\ calls = [c \in Calls |-> IdleCall]
    /\ hub = {}
    /\ response = None

Next ==
    \/ \E c \in Calls :
          \E p \in Payloads :
             create_event_source(c, [flavor |-> flavor.FLAVOR, configuration |-> p])
    \/ \E c \in Calls : create_event_source_delegate(c)
    \/ \E c \in Calls : \E e \in Events : process_event(c, e)
    \/ \E c \in Calls : process_event_match(c)

Spec == Init /\ [][Next]_vars

\* The flavor descriptor alone: every flavor, asked for its response model.
InitFlavor ==
    /\ extra \in ExtraPolicies
    /\ flavor \in Flavors(extra)
    /\ sources = <<>>
    /\ triggers = <<>>
    /\ calls = [c \in Calls |-> IdleCall]
    /\ hub = {}
    /\ response = None

NextFlavor == flavor_response

SpecFlavor == InitFlavor /\ [][NextFlavor]_vars

\* ------------------------------------------------------------- claims
ProcessCalls == {c \in Calls : calls[c].op = "process_event"}
CreateCalls == {c \in Calls : calls[c].op = "create_event_source"}

\* Where on its trace a call has called a collaborator, and how often.
Invocations(c, name) ==
    {i \in DOMAIN calls[c].trace : calls[c].trace[i].op = name}
Times(c, name) == Cardinality(Invocations(c, name))

Elems(seq) == {seq[i] : i \in DOMAIN seq}
NoDuplicates(seq) == \A i, j \in DOMAIN seq : i # j => seq[i] # seq[j]

\* The store as a call saw it when `n` event sources were persisted: the
\* event sources relevant to an event, the triggers registered on them, the
\* triggers whose stored filter is corrupt, and the triggers to be notified.
RelevantAt(event, n) ==
    {i \in 1..n : OriginOf(sources[i].configuration) = event.repoUrl}
CandidatesAt(event, n) ==
    {t \in TriggerIDs : \E i \in RelevantAt(event, n) : i \in triggers[t].event_sources}
CorruptTriggers ==
    {t \in TriggerIDs : Field("branch", Int("7")) \in triggers[t].filter}
FilterMatches(t, event) == Field("branch", Str(event.branch)) \in triggers[t].filter
ExpectedTriggers(event, n) ==
    {t \in CandidatesAt(event, n) \ CorruptTriggers : FilterMatches(t, event)}

\* The invalid-configuration error ended the call before any persistence.
Rejected(c) ==
    /\ calls[c].pc = "raised"
    /\ calls[c].error = InvalidConfiguration
    /\ Times(c, "_create_event_source") = 0

\* C1: a create_event_source call whose payload fails the validation ends
\* with the invalid-configuration error and never calls
\* _create_event_source; every event source the store has gained was
\* persisted by a call that passed the validation and returned.
C1_InvalidPayloadNotPersisted ==
    /\ \A c \in CreateCalls :
          ~calls[c].trace[1].res.ok => Rejected(c)
    /\ \A i \in DOMAIN sources :
          i > Len(InitialSources(RepoA)) =>
             \E c \in CreateCalls :
                /\ calls[c].pc = "returned"
                /\ calls[c].result.id = i
                /\ calls[c].trace[1].res.ok

C1_Witness ==
    \E c \in CreateCalls :
       /\ ~calls[c].trace[1].res.ok
       /\ calls[c].arg.configuration = {Field("repoUrl", Int("123"))}
       /\ calls[c].pc = "raised"

\* C2: a create_event_source call validates exactly once, first of all; it
\* calls _create_event_source only after a validation that succeeded, at
\* most once, and after a successful validation exactly once with the
\* request it was given; what _create_event_source answers is what the call
\* returns.
C2_ValidatedOnceBeforeCreate ==
    \A c \in CreateCalls :
       LET f == calls[c]
       IN /\ Times(c, "config_class") = 1
          /\ f.trace[1].op = "config_class"
          /\ f.trace[1].arg = f.arg
          /\ Times(c, "_create_event_source") <= 1
          /\ \A i \in Invocations(c, "_create_event_source") :
                i > 1 /\ f.trace[1].res.ok
          /\ (f.trace[1].res.ok /\ f.pc # "create") =>
                /\ Len(f.trace) = 2
                /\ f.trace[2].op = "_create_event_source"
                /\ f.trace[2].arg = f.arg
                /\ IF f.trace[2].res.ok
                   THEN f.pc = "returned" /\ f.result = f.trace[2].res.value
                   ELSE f.pc = "raised" /\ f.error = f.trace[2].res.error

C2_Witness ==
    \E c \in CreateCalls :
       /\ calls[c].pc = "returned"
       /\ calls[c].arg.configuration = {Field("repoUrl", Str(RepoB))}
       /\ calls[c].result.configuration = calls[c].arg.configuration

\* C3: the response model's source_config_schema is the schema of the
\* flavor's EVENT_SOURCE_CONFIG_CLASS and its filter_config_schema the
\* schema of the flavor's EVENT_FILTER_CONFIG_CLASS.
C3_ResponseBundlesSchemas ==
    response # None =>
       /\ response.source_config_schema = SchemaJson(flavor.EVENT_SOURCE_CONFIG_CLASS)
       /\ response.filter_config_schema = SchemaJson(flavor.EVENT_FILTER_CONFIG_CLASS)

\* C4: a process_event call that had relevant event sources and got the
\* trigger identifiers has dispatched the event with exactly those
\* identifiers to the Event Hub.
C4_ForwardedToEventHub ==
    \A c \in ProcessCalls :
       (calls[c].pc = "returned" /\ Times(c, "_get_matching_triggers") = 1) =>
          [event |-> calls[c].arg, trigger_ids |-> Elems(calls[c].trigger_ids)] \in hub

\* C5: a process_event call whose relevant event sources are none returns
\* without error, never calls _get_matching_triggers and dispatches nothing
\* to the Event Hub.
C5_NoRelevantSourcesNoWork ==
    \A c \in ProcessCalls :
       LET f == calls[c]
       IN (f.trace[1].res.ok /\ f.trace[1].res.value = {}) =>
             /\ f.pc = "returned"
             /\ f.error = "none"
             /\ Times(c, "_get_matching_triggers") = 0
             /\ \A d \in hub : d.event # f.arg

C5_Witness ==
    \E c \in ProcessCalls :
       /\ calls[c].trace[1].res.ok
       /\ calls[c].trace[1].res.value = {}
       /\ calls[c].pc = "returned"

C8_ValidatedAgainstFlavorType ==
    \A c \in CreateCalls :
       ( /\ ~Validates(flavor.EVENT_SOURCE_CONFIG_CLASS, calls[c].arg.configuration)
         /\ calls[c].pc \in {"returned", "raised"}
         /\ calls[c].error # "StoreUnavailable" )
       => Rejected(c)

\* C9: a failure of _get_all_relevant_event_sources or of
\* _get_matching_triggers ends the process_event call with that failure
\* raised to the caller; nothing is called after it and nothing reaches
\* the Event Hub.
C9_ExtensionFailuresPropagate ==
    \A c \in ProcessCalls :
       \A i \in DOMAIN calls[c].trace :
          LET f == calls[c]
              e == f.trace[i]
          IN ~e.res.ok =>
                /\ f.pc = "raised"
                /\ f.error = e.res.error
                /\ i = Len(f.trace)
                /\ \A d \in hub : d.event # f.arg

C9_Witness ==
    \E c, d \in ProcessCalls :
       /\ calls[c].pc = "raised"
       /\ calls[c].error = "SourceResolutionFailed"
       /\ Times(c, "_get_matching_triggers") = 0
       /\ calls[d].pc = "raised"
       /\ calls[d].error = "FilterEvaluationFailed"

\* C10: whatever the interleaving, a process_event call works on the event
\* sources relevant to its own event in the store it read and yields the
\* triggers of its own event, and a create_event_source call is rejected
\* exactly when its own payload fails the validation.
C10_CallsDoNotInterfere ==
    /\ \A c \in ProcessCalls :
          LET f == calls[c]
          IN /\ f.pc = "match" =>
                   f.event_source_ids = RelevantAt(f.arg, f.observed)
             /\ f.pc = "returned" =>
                   f.trigger_ids = SortedSeq(ExpectedTriggers(f.arg, f.observed))
    /\ \A c \in CreateCalls :
          Rejected(c) <=>
             ~Validates(config_class(flavor, extra), calls[c].arg.configuration)

\* Call 2 arrived after call 1 and ended while call 1 was still in flight.
C10_Witness ==
    /\ calls[1].op = "process_event"
    /\ calls[1].pc = "match"
    /\ calls[2].op = "process_event"
    /\ calls[2].pc = "returned"
    /\ calls[2].arg.repoUrl # calls[1].arg.repoUrl
    /\ calls[2].event_source_ids # {}
====
